---- MODULE Spec2Model ----
(***************************************************************************)
(* Backtesting core of CryptoSage: BacktestEngine.run                      *)
(* (src/src/backtesting/backtest_engine.py) and                            *)
(* MetricsCalculator.calculate_metrics (src/src/backtesting/metrics.py).   *)
(*                                                                         *)
(* Python floats are modelled as exact rationals [n, d] in lowest terms    *)
(* with d > 0; floating-point rounding is not modelled.  A Python local    *)
(* that may be None is modelled as a sequence: <<>> is None, <<x>> is x.   *)
(* One call of run is a chain of steps driven by pc: the reset, then per   *)
(* bar the signal call, the close block, the open block and the equity     *)
(* curve update, then the final close and the metrics computation.         *)
(***************************************************************************)
EXTENDS Integers, Sequences, FiniteSets, TLC

\* Longest bar series handed to run.
MaxBars == 4

----------------------------------------------------------------------------
\* Exact rational arithmetic.

Abs(x) == IF x < 0 THEN -x ELSE x

RECURSIVE GCD(_, _)
GCD(a, b) == IF b = 0 THEN a ELSE GCD(b, a % b)

LCM(a, b) == (a \div GCD(a, b)) * b

RNorm(n, d) ==
    LET g == GCD(Abs(n), d)
    IN  [n |-> (IF n < 0 THEN -(Abs(n) \div g) ELSE n \div g), d |-> d \div g]

R(k) == [n |-> k, d |-> 1]

Frac(a, b) == RNorm(a, b)

RNeg(a) == [n |-> -a.n, d |-> a.d]

RAdd(a, b) ==
    LET l == LCM(a.d, b.d)
    IN  RNorm(a.n * (l \div a.d) + b.n * (l \div b.d), l)

RSub(a, b) == RAdd(a, RNeg(b))

RMul(a, b) ==
    LET g1 == GCD(Abs(a.n), b.d)
        g2 == GCD(Abs(b.n), a.d)
        sn == IF (a.n < 0) = (b.n < 0) THEN 1 ELSE -1
    IN  RNorm(sn * (Abs(a.n) \div g1) * (Abs(b.n) \div g2),
              (a.d \div g2) * (b.d \div g1))

RInv(a) == IF a.n > 0 THEN [n |-> a.d, d |-> a.n] ELSE [n |-> -a.d, d |-> -a.n]

\* Defined for b # 0 only; every division of the engine is by a positive price.
RDiv(a, b) == RMul(a, RInv(b))

RPos(a) == a.n > 0
RNegative(a) == a.n < 0
RZero(a) == a.n = 0
RLess(a, b) == RNegative(RSub(a, b))

----------------------------------------------------------------------------
\* Inputs.

None == <<>>
Some(x) == <<x>>

\* Constructor arguments tried (initial_capital, maker_fee, taker_fee,
\* slippage_pct, leverage).
InitialCapitals == {R(1000)}
MakerFees == {Frac(2, 10000)}
TakerFees == {R(0), Frac(1, 100)}
SlippagePcts == {R(0), R(25)}
Leverages == {R(1), R(3)}

\* Close prices of the bars and the spacing of their timestamps in hours.
Closes == {100, 110}
BarHours == {12, 24}
HoursPerDay == 24

\* A bar series: the index (timestamp, hours since the first bar) and the
\* "close" column, the only column run reads.
SeriesOf(n, h) ==
    {[k \in 1..n |-> [time |-> (k - 1) * h, close |-> c[k]]] : c \in [1..n -> Closes]}

BarSeries == UNION {SeriesOf(n, h) : n \in 2..MaxBars, h \in BarHours}

\* Signal generators handed to run: one that returns 0 on every call and one
\* that may return any of the three signals, or raise.
SignalGenerators == {"always_flat", "any"}

SignalValues(gen) ==
    CASE gen = "always_flat" -> {0}
      [] gen = "always_long" -> {1}
      [] OTHER -> {-1, 0, 1}

\* Position sizers handed to run: one returning 2% of equity for a non-flat
\* signal (examples/04_backtesting.py) and one returning the whole equity.
PositionSizers == {"two_percent", "full_equity"}

MayRaise(gen) == gen = "any"

\* Inputs of AnyInputSpec, where nothing is assumed of the caller: constructor
\* arguments that are both positive or both not, two maker fees, and series of
\* 0 to MaxAnyBars bars whose timestamps (a day apart) increase, repeat or
\* decrease.
MaxAnyBars == 3
AnyCapitals == {R(1000), R(-1000)}
AnyMakerFees == {Frac(2, 10000), Frac(5, 100)}
AnyTakerFees == {Frac(1, 100)}
AnySlippagePcts == {R(25)}
AnyLeverages == {R(2), R(0)}
TimeOrders == {"increasing", "repeated", "decreasing"}

TimeOf(order, n, k) ==
    CASE order = "increasing" -> (k - 1) * HoursPerDay
      [] order = "repeated" -> 0
      [] OTHER -> (n - k) * HoursPerDay

AnySeriesOf(n, order) ==
    {[k \in 1..n |-> [time |-> TimeOf(order, n, k), close |-> c[k]]] :
        c \in [1..n -> Closes]}

AnySeries == UNION {AnySeriesOf(n, o) : n \in 0..MaxAnyBars, o \in TimeOrders}

----------------------------------------------------------------------------
VARIABLES
    initial_capital, maker_fee, taker_fee, slippage_pct, leverage,
    equity, trades, equity_curve, timestamps,
    data, signal_generator, position_sizer,
    i, signal, position, entry_price, entry_time,
    pc, result,
    signal_calls, opened, entry_equity, rerun,
    call, ret

config == <<initial_capital, maker_fee, taker_fee, slippage_pct, leverage>>
fields == <<equity, trades, equity_curve, timestamps>>
inputs == <<data, signal_generator, position_sizer>>
frame == <<inputs, i, signal, position, entry_price, entry_time>>
ghost == <<signal_calls, opened, entry_equity, rerun>>
engine == <<config, fields, frame, pc, result, ghost>>
library == <<call, ret>>
vars == <<engine, library>>

NoResult == [kind |-> "none"]
NoCall == [fn |-> "none"]
Returned(v) == [kind |-> "value", value |-> v]
Raised(e) == [kind |-> "error", error |-> e]

Last(s) == s[Len(s)]

Init ==
    /\ initial_capital \in InitialCapitals
    /\ maker_fee \in MakerFees
    /\ taker_fee \in TakerFees
    /\ slippage_pct \in SlippagePcts
    /\ leverage \in Leverages
    /\ equity = initial_capital
    /\ trades = <<>>
    /\ equity_curve = <<initial_capital>>
    /\ timestamps = <<>>
    /\ data = <<>>
    /\ signal_generator = "always_flat"
    /\ position_sizer = "two_percent"
    /\ i = 0
    /\ signal = None
    /\ position = None
    /\ entry_price = None
    /\ entry_time = None
    /\ pc = "idle"
    /\ result = NoResult
    /\ signal_calls = <<>>
    /\ opened = 0
    /\ entry_equity = None
    /\ rerun = FALSE
    /\ call = NoCall
    /\ ret = NoResult

----------------------------------------------------------------------------
\* BacktestEngine.run, piece by piece.

\* self.equity_curve = [self.initial_capital]
ResetEquityCurve(cap) == <<cap>>

\* self.timestamps = [data.index[0]]
ResetTimestamps(d) == <<d[1].time>>

\* Variant: the loop stops one index early.
LoopStopsEarly(d, idx) == idx < Len(d) - 1

\* range(1, len(data)) has a next index after idx
LoopContinues(d, idx) == idx < Len(d)

\* Variant: the slice reaches one bar past the current one.
PrefixLookAhead(d, idx) == SubSeq(d, 1, IF idx + 2 <= Len(d) THEN idx + 2 ELSE Len(d))

\* data.iloc[:i+1]
Prefix(d, idx) == SubSeq(d, 1, idx + 1)

\* Variant: an open position is closed on every bar, whatever the signal.
ShouldCloseEveryBar(pos, sig) == pos # None

\* position is not None and signal != position
ShouldClose(pos, sig) == pos # None /\ sig # pos[1]

\* current_price * (1 - self.slippage_pct / 100)
ExitPrice(price, slip) == RMul(R(price), RSub(R(1), RDiv(slip, R(100))))

\* Variant: a non-flat signal opens a position whether or not one is open.
ShouldOpenAlways(pos, sig) == sig # 0

\* position is None and signal != 0
ShouldOpen(pos, sig) == pos = None /\ sig # 0

\* current_price * (1 + self.slippage_pct / 100)
EntryPrice(price, slip) == RMul(R(price), RAdd(R(1), RDiv(slip, R(100))))

\* Variant: the final close pays exit slippage like any other close.
FinalExitPriceSlipped(d) == ExitPrice(Last(d).close, slippage_pct)

\* data.iloc[-1]["close"]
FinalExitPrice(d) == R(Last(d).close)

\* What position_sizer(equity, signal) returns for a non-flat signal.
SizerReturn(z, eq) == IF z = "two_percent" THEN RMul(eq, Frac(2, 100)) ELSE eq

\* Variant: the notional is what the position sizer returns.
NotionalFromSizer(eq, lev) == SizerReturn(position_sizer, eq)

\* position_size=self.equity * self.leverage
Notional(eq, lev) == RMul(eq, lev)

\* Variant: the fee is charged once instead of on entry and exit.
CalculatePnlSingleFee(pos, entry, exit, position_size, fee) ==
    LET price_change == IF pos = 1 THEN RSub(exit, entry) ELSE RSub(entry, exit)
        return_pct == RDiv(price_change, entry)
    IN  RSub(RMul(position_size, return_pct), RMul(position_size, fee))

\* Variant: the fees are paid to the trader instead of by the trader.
CalculatePnlFeeRebate(pos, entry, exit, position_size, fee) ==
    LET price_change == IF pos = 1 THEN RSub(exit, entry) ELSE RSub(entry, exit)
        return_pct == RDiv(price_change, entry)
    IN  RAdd(RMul(position_size, return_pct),
             RMul(RMul(position_size, fee), R(2)))

\* Variant: the maker fee is charged on top of the taker fee.
CalculatePnlWithMakerFee(pos, entry, exit, position_size, fee) ==
    LET price_change == IF pos = 1 THEN RSub(exit, entry) ELSE RSub(entry, exit)
        return_pct == RDiv(price_change, entry)
    IN  RSub(RMul(position_size, return_pct),
             RMul(RMul(position_size, RAdd(fee, maker_fee)), R(2)))

\* BacktestEngine._calculate_pnl
CalculatePnl(pos, entry, exit, position_size, fee) ==
    LET price_change == IF pos = 1 THEN RSub(exit, entry) ELSE RSub(entry, exit)
        return_pct == RDiv(price_change, entry)
        pnl == RMul(position_size, return_pct)
        fees == RMul(RMul(position_size, fee), R(2))
    IN  RSub(pnl, fees)

\* Variant: the curve records realized equity only.
CurrentEquityRealizedOnly(pos, entry, price, eq, lev, fee) == eq

\* the value appended to self.equity_curve for the current bar
CurrentEquity(pos, entry, price, eq, lev, fee) ==
    IF pos # None
    THEN RAdd(eq, CalculatePnl(pos[1], entry[1], R(price), Notional(eq, lev), fee))
    ELSE eq

Trade(etime, xtime, eprice, xprice, pos, pnl) ==
    [entry_time |-> etime, exit_time |-> xtime, entry_price |-> eprice,
     exit_price |-> xprice, position |-> pos, pnl |-> pnl]

\* run(data, signal_generator, position_sizer) is entered: the engine's
\* fields and the locals are reset.  data.index[0] raises IndexError for an
\* empty series, after equity, trades and equity_curve were reset.
EnterRun(d, g, z) ==
    /\ pc \in {"idle", "returned", "raised"}
    /\ data' = d
    /\ signal_generator' = g
    /\ position_sizer' = z
    /\ equity' = initial_capital
    /\ trades' = <<>>
    /\ equity_curve' = ResetEquityCurve(initial_capital)
    /\ IF Len(d) = 0
       THEN /\ timestamps' = timestamps
            /\ result' = Raised("IndexError")
            /\ pc' = "raised"
            /\ i' = 0
       ELSE /\ timestamps' = ResetTimestamps(d)
            /\ result' = NoResult
            /\ pc' = IF LoopContinues(d, 1) THEN "signal" ELSE "final"
            /\ i' = 1
    /\ position' = None
    /\ entry_price' = None
    /\ entry_time' = None
    /\ signal' = None
    /\ signal_calls' = <<>>
    /\ opened' = 0
    /\ entry_equity' = None
    /\ UNCHANGED <<library, config>>

\* A caller runs a backtest over a well-formed series on a newly constructed
\* engine.  run resets every field it reads, so a second run over a non-empty
\* series passes through the same states; CallRun models the reuse of an
\* instance.
StartRun ==
    /\ pc = "idle"
    /\ \E d \in BarSeries, g \in SignalGenerators : EnterRun(d, g, "two_percent")
    /\ UNCHANGED rerun

\* signal = signal_generator(data.iloc[:i+1]), the callback returns.
GenerateSignal ==
    /\ pc = "signal"
    /\ \E s \in SignalValues(signal_generator) :
          /\ signal' = Some(s)
          /\ signal_calls' = Append(signal_calls,
                                    [input |-> Prefix(data, i), returned |-> Some(s)])
    /\ pc' = "close"
    /\ UNCHANGED <<library, config, fields, inputs, i, position,
                   entry_price, entry_time, result, opened, entry_equity, rerun>>

\* Variant: run catches the callback's exception and carries on as if flat.
SignalRaisesSwallowed ==
    /\ pc = "signal"
    /\ MayRaise(signal_generator)
    /\ signal_calls' = Append(signal_calls,
                              [input |-> Prefix(data, i), returned |-> None])
    /\ signal' = Some(0)
    /\ pc' = "close"
    /\ UNCHANGED <<library, config, fields, inputs, i, position,
                   entry_price, entry_time, result, opened, entry_equity, rerun>>

\* signal = signal_generator(data.iloc[:i+1]), the callback raises: run has no
\* handler, the exception leaves run and its locals are gone.
SignalRaises ==
    /\ pc = "signal"
    /\ MayRaise(signal_generator)
    /\ signal_calls' = Append(signal_calls,
                              [input |-> Prefix(data, i), returned |-> None])
    /\ result' = Raised("SignalError")
    /\ pc' = "raised"
    /\ i' = 0
    /\ signal' = None
    /\ position' = None
    /\ entry_price' = None
    /\ entry_time' = None
    /\ UNCHANGED <<library, config, fields, inputs, opened, entry_equity, rerun>>

\* "Close position if signal changes"
ClosePosition ==
    /\ pc = "close"
    /\ IF ShouldClose(position, signal[1])
       THEN LET exit_price == ExitPrice(data[i + 1].close, slippage_pct)
                pnl == CalculatePnl(position[1], entry_price[1], exit_price,
                                    Notional(equity, leverage), taker_fee)
            IN  /\ trades' = Append(trades,
                                    Trade(entry_time[1], data[i + 1].time,
                                          entry_price[1], exit_price, position[1], pnl))
                /\ equity' = RAdd(equity, pnl)
                /\ position' = None
                /\ entry_price' = None
                /\ entry_time' = None
       ELSE UNCHANGED <<trades, equity, position, entry_price, entry_time>>
    /\ pc' = "open"
    /\ UNCHANGED <<library, config, equity_curve, timestamps, inputs, i,
                   signal, result, ghost>>

\* "Open new position"
OpenPosition ==
    /\ pc = "open"
    /\ IF ShouldOpen(position, signal[1])
       THEN /\ entry_price' = Some(EntryPrice(data[i + 1].close, slippage_pct))
            /\ position' = signal
            /\ entry_time' = Some(data[i + 1].time)
            /\ opened' = opened + 1
            /\ entry_equity' = Some(equity)
       ELSE UNCHANGED <<entry_price, position, entry_time, opened, entry_equity>>
    /\ pc' = "mark"
    /\ UNCHANGED <<library, config, fields, inputs, i, signal, result,
                   signal_calls, rerun>>

\* "Update equity curve", then the loop moves to the next index.
UpdateEquityCurve ==
    /\ pc = "mark"
    /\ equity_curve' = Append(equity_curve,
                              CurrentEquity(position, entry_price, data[i + 1].close,
                                            equity, leverage, taker_fee))
    /\ timestamps' = Append(timestamps, data[i + 1].time)
    /\ i' = i + 1
    /\ pc' = IF LoopContinues(data, i + 1) THEN "signal" ELSE "final"
    /\ UNCHANGED <<library, config, equity, trades, inputs, signal, position,
                   entry_price, entry_time, result, ghost>>

\* Variant: the final trade is logged but its pnl is not added to the equity.
CloseFinalPositionNotBooked ==
    /\ pc = "final"
    /\ IF position # None
       THEN LET exit_price == FinalExitPrice(data)
                pnl == CalculatePnl(position[1], entry_price[1], exit_price,
                                    Notional(equity, leverage), taker_fee)
            IN  trades' = Append(trades,
                                 Trade(entry_time[1], Last(data).time,
                                       entry_price[1], exit_price, position[1], pnl))
       ELSE UNCHANGED trades
    /\ pc' = "metrics"
    /\ UNCHANGED <<library, config, equity, equity_curve, timestamps, frame, result,
                   ghost>>

\* "Close final position"
CloseFinalPosition ==
    /\ pc = "final"
    /\ IF position # None
       THEN LET exit_price == FinalExitPrice(data)
                pnl == CalculatePnl(position[1], entry_price[1], exit_price,
                                    Notional(equity, leverage), taker_fee)
            IN  /\ trades' = Append(trades,
                                    Trade(entry_time[1], Last(data).time,
                                          entry_price[1], exit_price, position[1], pnl))
                /\ equity' = RAdd(equity, pnl)
       ELSE UNCHANGED <<trades, equity>>
    /\ pc' = "metrics"
    /\ UNCHANGED <<library, config, equity_curve, timestamps, frame, result, ghost>>

----------------------------------------------------------------------------
\* MetricsCalculator.calculate_metrics.  The report keeps the fields that are
\* rational functions of the inputs; annual_return_pct, sharpe_ratio,
\* sortino_ratio and calmar_ratio need roots and fractional powers: the
\* Sharpe ratio is kept by the kind of float it is, the others are left out.  The one statement that can raise is kept:
\* 1 / years is a Python float division and raises ZeroDivisionError for
\* years = 0.

Max(a, b) == IF a < b THEN b ELSE a

\* (equity_curve.index[-1] - equity_curve.index[0]).days
Days(index) == (Last(index) - index[1]) \div HoursPerDay

\* (equity_curve.iloc[-1] / equity_curve.iloc[0] - 1) * 100
TotalReturn(curve) == RMul(RSub(RDiv(Last(curve), curve[1]), R(1)), R(100))

\* [t.get("pnl", 0) for t in trades]
Pnls(log) == [k \in 1..Len(log) |-> log[k].pnl]

\* sum(1 for p in pnls if p > 0), sum(1 for p in pnls if p < 0)
CountWins(pnls) == Cardinality({k \in 1..Len(pnls) : RPos(pnls[k])})
CountLosses(pnls) == Cardinality({k \in 1..Len(pnls) : RNegative(pnls[k])})

\* sum(p for p in pnls if p > 0)
GrossProfit(pnls) ==
    LET F[k \in 0..Len(pnls)] ==
            IF k = 0 THEN R(0)
            ELSE IF RPos(pnls[k]) THEN RAdd(F[k - 1], pnls[k]) ELSE F[k - 1]
    IN  F[Len(pnls)]

\* Variant: the sum of the losses, without abs().
GrossLossSigned(pnls) ==
    LET F[k \in 0..Len(pnls)] ==
            IF k = 0 THEN R(0)
            ELSE IF RNegative(pnls[k]) THEN RAdd(F[k - 1], pnls[k]) ELSE F[k - 1]
    IN  F[Len(pnls)]

\* abs(sum(p for p in pnls if p < 0))
GrossLoss(pnls) ==
    LET F[k \in 0..Len(pnls)] ==
            IF k = 0 THEN R(0)
            ELSE IF RNegative(pnls[k]) THEN RAdd(F[k - 1], pnls[k]) ELSE F[k - 1]
    IN  RNeg(F[Len(pnls)])

\* max(pnls), min(pnls)
LargestWin(pnls) ==
    CHOOSE p \in {pnls[k] : k \in 1..Len(pnls)} :
        \A k \in 1..Len(pnls) : ~RLess(p, pnls[k])
LargestLoss(pnls) ==
    CHOOSE p \in {pnls[k] : k \in 1..Len(pnls)} :
        \A k \in 1..Len(pnls) : ~RLess(pnls[k], p)

\* lambda x: x > 0 and lambda x: x < 0, as functions on the values they are
\* applied to
IsWin(pnls) == [p \in {pnls[k] : k \in 1..Len(pnls)} |-> RPos(p)]
IsLoss(pnls) == [p \in {pnls[k] : k \in 1..Len(pnls)} |-> RNegative(p)]

\* Variant: the count is not reset by a value that fails the condition.
MaxConsecutiveNoReset(values, condition) ==
    Cardinality({k \in 1..Len(values) : condition[values[k]]})

\* MetricsCalculator._max_consecutive
MaxConsecutive(values, condition) ==
    LET F[k \in 0..Len(values)] ==
            IF k = 0 THEN [max_count |-> 0, current_count |-> 0]
            ELSE IF condition[values[k]]
                 THEN [max_count |-> Max(F[k - 1].max_count, F[k - 1].current_count + 1),
                       current_count |-> F[k - 1].current_count + 1]
                 ELSE [max_count |-> F[k - 1].max_count, current_count |-> 0]
    IN  F[Len(values)].max_count

\* "Trade statistics"
TradeStatistics(log) ==
    IF log # <<>>
    THEN LET pnls == Pnls(log)
             winning_trades == CountWins(pnls)
             losing_trades == CountLosses(pnls)
             total_trades == Len(log)
             gross_profit == GrossProfit(pnls)
             gross_loss == GrossLoss(pnls)
         IN  [winning_trades |-> winning_trades,
              losing_trades |-> losing_trades,
              total_trades |-> total_trades,
              win_rate_pct |-> IF total_trades > 0
                               THEN RMul(Frac(winning_trades, total_trades), R(100))
                               ELSE R(0),
              profit_factor |-> IF RPos(gross_loss)
                                THEN RDiv(gross_profit, gross_loss) ELSE R(0),
              avg_win_usd |-> IF winning_trades > 0
                              THEN RDiv(gross_profit, R(winning_trades)) ELSE R(0),
              avg_loss_usd |-> IF losing_trades > 0
                               THEN RDiv(gross_loss, R(losing_trades)) ELSE R(0),
              largest_win_usd |-> LargestWin(pnls),
              largest_loss_usd |-> LargestLoss(pnls),
              consecutive_wins |-> MaxConsecutive(pnls, IsWin(pnls)),
              consecutive_losses |-> MaxConsecutive(pnls, IsLoss(pnls))]
    ELSE [winning_trades |-> 0, losing_trades |-> 0, total_trades |-> 0,
          win_rate_pct |-> R(0), profit_factor |-> R(0),
          avg_win_usd |-> R(0), avg_loss_usd |-> R(0),
          largest_win_usd |-> R(0), largest_loss_usd |-> R(0),
          consecutive_wins |-> 0, consecutive_losses |-> 0]

\* risk_free_rate: float = 0.02 and the 252 of risk_free_rate / 252
RiskFreeRate == Frac(2, 100)
TradingDays == 252

\* equity_curve.pct_change().dropna()
PctChange(curve) ==
    [k \in 1..(Len(curve) - 1) |-> RSub(RDiv(curve[k + 1], curve[k]), R(1))]

\* returns - risk_free_rate / 252
ExcessReturns(returns) ==
    [k \in 1..Len(returns) |-> RSub(returns[k], RDiv(RiskFreeRate, R(TradingDays)))]

\* np.sqrt(252) * excess_returns.mean() / excess_returns.std(), by the kind of
\* float it is.  std() is the sample deviation: NaN for fewer than two
\* values and 0 exactly when all values are equal; numpy divides by 0 without
\* raising, giving an infinity of the mean's sign, or NaN for 0 / 0.
SharpeRatio(excess) ==
    IF Len(excess) < 2 THEN "nan"
    ELSE IF \A k \in 1..Len(excess) : excess[k] = excess[1]
         THEN (IF RPos(excess[1]) THEN "inf"
               ELSE IF RNegative(excess[1]) THEN "-inf" ELSE "nan")
         ELSE "finite"

RMax(a, b) == IF RLess(a, b) THEN b ELSE a
RMin(a, b) == IF RLess(b, a) THEN b ELSE a

\* (1 + returns).cumprod()
CumProd(returns) ==
    LET F[k \in 0..Len(returns)] ==
            IF k = 0 THEN <<>>
            ELSE LET prev == F[k - 1]
                 IN  Append(prev, IF k = 1 THEN RAdd(R(1), returns[1])
                                  ELSE RMul(prev[k - 1], RAdd(R(1), returns[k])))
    IN  F[Len(returns)]

\* cumulative.expanding().max()
ExpandingMax(cumulative) ==
    LET F[k \in 0..Len(cumulative)] ==
            IF k = 0 THEN <<>>
            ELSE LET prev == F[k - 1]
                 IN  Append(prev, IF k = 1 THEN cumulative[1]
                                  ELSE RMax(prev[k - 1], cumulative[k]))
    IN  F[Len(cumulative)]

\* drawdown.min(), over a series of one value or more
SeriesMin(series) ==
    LET F[k \in 1..Len(series)] ==
            IF k = 1 THEN series[1] ELSE RMin(F[k - 1], series[k])
    IN  F[Len(series)]

\* drawdown = (cumulative - running_max) / running_max;
\* max_drawdown_pct = drawdown.min() * 100, over a series of one return or more.
MaxDrawdownPct(curve) ==
    LET cumulative == CumProd(PctChange(curve))
        running_max == ExpandingMax(cumulative)
        drawdown == [k \in 1..Len(cumulative) |->
                        RDiv(RSub(cumulative[k], running_max[k]), running_max[k])]
    IN  RMul(SeriesMin(drawdown), R(100))

\* What calculate_metrics(equity_series, trades) gives back to run.
CalculateMetricsResult(curve, index, log) ==
    IF Days(index) = 0
    THEN Raised("ZeroDivisionError")
    ELSE [kind |-> "report",
          total_return_pct |-> TotalReturn(curve),
          sharpe_ratio |-> SharpeRatio(ExcessReturns(PctChange(curve))),
          max_drawdown_pct |-> MaxDrawdownPct(curve),
          stats |-> TradeStatistics(log)]

\* "Calculate metrics" and return them, or let the exception out of run.
CalculateMetrics ==
    /\ pc = "metrics"
    /\ result' = CalculateMetricsResult(equity_curve, timestamps, trades)
    /\ pc' = IF result'.kind = "report" THEN "returned" ELSE "raised"
    /\ i' = 0
    /\ signal' = None
    /\ position' = None
    /\ entry_price' = None
    /\ entry_time' = None
    /\ UNCHANGED <<library, config, fields, inputs, ghost>>

\* BacktestEngine.get_equity_curve: pd.Series(self.equity_curve,
\* index=self.timestamps), a ValueError when the two lists differ in length.
GetEquityCurve ==
    IF Len(equity_curve) = Len(timestamps)
    THEN [kind |-> "series", values |-> equity_curve, index |-> timestamps]
    ELSE Raised("ValueError")

\* BacktestEngine.get_trades: the rows of the returned DataFrame.
GetTrades == trades

\* AnyInputSpec: the constructor and run take whatever the caller passes, on
\* a fresh instance or on one that has run before.
AnyInputInit ==
    /\ initial_capital \in AnyCapitals
    /\ maker_fee \in AnyMakerFees
    /\ taker_fee \in AnyTakerFees
    /\ slippage_pct \in AnySlippagePcts
    /\ leverage \in AnyLeverages
    /\ RPos(initial_capital) <=> RPos(leverage)
    /\ equity = initial_capital
    /\ trades = <<>>
    /\ equity_curve = <<initial_capital>>
    /\ timestamps = <<>>
    /\ data = <<>>
    /\ signal_generator = "any"
    /\ position_sizer = "two_percent"
    /\ i = 0
    /\ signal = None
    /\ position = None
    /\ entry_price = None
    /\ entry_time = None
    /\ pc = "idle"
    /\ result = NoResult
    /\ signal_calls = <<>>
    /\ opened = 0
    /\ entry_equity = None
    /\ rerun = FALSE
    /\ call = NoCall
    /\ ret = NoResult

\* A caller runs a backtest over any series, on a new instance or on one that
\* ran before.  A third run would start from the same fields as the second.
CallRun ==
    /\ ~rerun
    /\ \E d \in AnySeries, z \in PositionSizers : EnterRun(d, "any", z)
    /\ rerun' = (pc # "idle")

AnyInputNext ==
    \/ CallRun
    \/ GenerateSignal
    \/ SignalRaises
    \/ ClosePosition
    \/ OpenPosition
    \/ UpdateEquityCurve
    \/ CloseFinalPosition
    \/ CalculateMetrics

AnyInputSpec == AnyInputInit /\ [][AnyInputNext]_vars

\* One engine and one series: capital 10000, leverage 1, no slippage, no fees,
\* five daily bars, and signal functions that always return +1, always return
\* 0, or return anything.
ScenarioCloses == <<100, 102, 101, 105, 103>>

ScenarioBars ==
    [k \in 1..Len(ScenarioCloses) |->
        [time |-> (k - 1) * HoursPerDay, close |-> ScenarioCloses[k]]]

ScenarioGenerators == {"always_long", "always_flat", "any"}

ScenarioInit ==
    /\ initial_capital = R(10000)
    /\ maker_fee = R(0)
    /\ taker_fee = R(0)
    /\ slippage_pct = R(0)
    /\ leverage = R(1)
    /\ equity = initial_capital
    /\ trades = <<>>
    /\ equity_curve = <<initial_capital>>
    /\ timestamps = <<>>
    /\ data = <<>>
    /\ signal_generator = "always_flat"
    /\ position_sizer = "two_percent"
    /\ i = 0
    /\ signal = None
    /\ position = None
    /\ entry_price = None
    /\ entry_time = None
    /\ pc = "idle"
    /\ result = NoResult
    /\ signal_calls = <<>>
    /\ opened = 0
    /\ entry_equity = None
    /\ rerun = FALSE
    /\ call = NoCall
    /\ ret = NoResult

ScenarioRun ==
    /\ \E g \in ScenarioGenerators : EnterRun(ScenarioBars, g, "two_percent")
    /\ UNCHANGED rerun

ScenarioNext ==
    \/ ScenarioRun
    \/ GenerateSignal
    \/ SignalRaises
    \/ ClosePosition
    \/ OpenPosition
    \/ UpdateEquityCurve
    \/ CloseFinalPosition
    \/ CalculateMetrics

ScenarioSpec == ScenarioInit /\ [][ScenarioNext]_vars

\* The library functions, called on their own: calculate_metrics over the
\* equity curves of 2 to MaxCurve points and the trade logs of 0 to MaxLog
\* trades, on a daily or half-daily index.
MaxCurve == 3
MaxLog == 3
CurveValues == {R(1000), R(900), R(1100), R(-200)}
PnlValues == {R(-50), R(0), R(100)}

EquityCurves == UNION {[1..n -> CurveValues] : n \in 2..MaxCurve}
TradeLogs == UNION {[1..n -> [pnl : PnlValues]] : n \in 0..MaxLog}
IndexOf(n, h) == [k \in 1..n |-> (k - 1) * h]

\* BacktestEngine() with the defaults of __init__; the library functions do
\* not touch it.
LibraryInit ==
    /\ initial_capital = R(100000)
    /\ maker_fee = Frac(2, 10000)
    /\ taker_fee = Frac(4, 10000)
    /\ slippage_pct = Frac(1, 100)
    /\ leverage = R(1)
    /\ equity = initial_capital
    /\ trades = <<>>
    /\ equity_curve = <<initial_capital>>
    /\ timestamps = <<>>
    /\ data = <<>>
    /\ signal_generator = "always_flat"
    /\ position_sizer = "two_percent"
    /\ i = 0
    /\ signal = None
    /\ position = None
    /\ entry_price = None
    /\ entry_time = None
    /\ pc = "idle"
    /\ result = NoResult
    /\ signal_calls = <<>>
    /\ opened = 0
    /\ entry_equity = None
    /\ rerun = FALSE
    /\ call = NoCall
    /\ ret = NoResult

\* MetricsCalculator.calculate_metrics(equity_curve, trades)
CallCalculateMetrics ==
    /\ call = NoCall
    /\ \E curve \in EquityCurves, h \in BarHours, log \in TradeLogs :
          /\ call' = [fn |-> "calculate_metrics", equity_curve |-> curve,
                      index |-> IndexOf(Len(curve), h), trades |-> log]
          /\ ret' = CalculateMetricsResult(curve, IndexOf(Len(curve), h), log)
    /\ UNCHANGED engine

\* Arguments of the position sizing functions, and how many times in a row
\* one call is made.
MaxCalls == 3
AccountSizes == {R(0), R(1000), R(100000)}
RiskFractions == {R(0), Frac(2, 100), Frac(1, 4), R(1)}

\* Variant: the default risk_fraction = 0.02 is used whatever is passed.
FixedFractionDefault(account_size, risk_fraction) ==
    RMul(account_size, Frac(2, 100))

\* position_size = account_size * risk_fraction
FixedFraction(account_size, risk_fraction) == RMul(account_size, risk_fraction)

\* PositionSizer.fixed_fraction(account_size, risk_fraction)
CallFixedFraction ==
    /\ call = NoCall
    /\ \E a \in AccountSizes, f \in RiskFractions :
          /\ call' = [fn |-> "fixed_fraction", account_size |-> a,
                      risk_fraction |-> f, calls |-> 1]
          /\ ret' = Returned(FixedFraction(a, f))
    /\ UNCHANGED engine

\* The same call, made again.
CallFixedFractionAgain ==
    /\ call.fn = "fixed_fraction"
    /\ call.calls < MaxCalls
    /\ call' = [call EXCEPT !.calls = call.calls + 1]
    /\ ret' = Returned(FixedFraction(call.account_size, call.risk_fraction))
    /\ UNCHANGED engine

WinRates == {R(0), Frac(1, 2), R(1)}
AvgWins == {R(0), R(100), R(300)}
AvgLosses == {R(0), R(100)}
MaxFractions == {Frac(1, 4), R(1)}

\* PositionSizer.kelly_criterion; (b * p - q) / b is a float division, which
\* raises ZeroDivisionError for b = 0.
KellyCriterion(win_rate, avg_win, avg_loss, account_size, max_fraction) ==
    IF RZero(avg_loss) THEN Returned(R(0))
    ELSE LET b == RDiv(avg_win, avg_loss)
             p == win_rate
             q == RSub(R(1), win_rate)
         IN  IF RZero(b) THEN Raised("ZeroDivisionError")
             ELSE LET kelly_fraction == RDiv(RSub(RMul(b, p), q), b)
                      limited == RMax(RMin(kelly_fraction, max_fraction), R(0))
                  IN  Returned(RMul(account_size, limited))

CallKellyCriterion ==
    /\ call = NoCall
    /\ \E w \in WinRates, aw \in AvgWins, al \in AvgLosses,
          a \in AccountSizes, m \in MaxFractions :
          /\ call' = [fn |-> "kelly_criterion", win_rate |-> w, avg_win |-> aw,
                      avg_loss |-> al, account_size |-> a, max_fraction |-> m]
          /\ ret' = KellyCriterion(w, aw, al, a, m)
    /\ UNCHANGED engine

\* Arguments of the RiskManager functions.
EntryPrices == {R(100), R(45000)}
CurrentPrices == {R(100), R(46000)}
LeverageArgs == {R(1), R(3), R(5), R(19), R(20), R(25)}
PositionTypes == {"long", "short"}
PositionSizesUsd == {R(50000)}
FundingRates == {R(0), Frac(1, 10000)}
Volatilities == {Frac(1, 4)}
MaintenanceMarginRate == Frac(5, 100)

\* Variant: the formulas of the two sides are exchanged.
CalculateLiquidationPriceSwapped(entry, lev, position_type, rate) ==
    IF position_type = "long"
    THEN RMul(entry, RSub(RAdd(R(1), RDiv(R(1), lev)), rate))
    ELSE RMul(entry, RAdd(RSub(R(1), RDiv(R(1), lev)), rate))

\* RiskManager.calculate_liquidation_price, for leverage # 0
CalculateLiquidationPrice(entry, lev, position_type, rate) ==
    IF position_type = "long"
    THEN RMul(entry, RAdd(RSub(R(1), RDiv(R(1), lev)), rate))
    ELSE RMul(entry, RSub(RAdd(R(1), RDiv(R(1), lev)), rate))

\* RiskManager.calculate_liquidation_distance
CalculateLiquidationDistance(current_price, liquidation_price, position_type) ==
    IF position_type = "long"
    THEN RMul(RDiv(RSub(current_price, liquidation_price), current_price), R(100))
    ELSE RMul(RDiv(RSub(liquidation_price, current_price), current_price), R(100))

\* RiskManager.calculate_funding_cost
CalculateFundingCost(position_size_usd, funding_rate, hours) ==
    RMul(RMul(position_size_usd, funding_rate), Frac(hours, 8))

\* RiskManager.calculate_risk_metrics.  The "Max loss" block reads the name
\* liquidation_price, which the method never binds (its local is liq_price)
\* and the module does not define: NameError on either side, after the
\* liquidation price, distance, probability and funding costs were computed.
CalculateRiskMetrics(entry, current_price, position_size_usd, lev, funding_rate, volatility, position_type) ==
    LET liq_price == CalculateLiquidationPrice(entry, lev, position_type,
                                               MaintenanceMarginRate)
        liq_distance_pct ==
            CalculateLiquidationDistance(current_price, liq_price, position_type)
        funding_hourly == CalculateFundingCost(position_size_usd, funding_rate, 1)
        funding_daily == CalculateFundingCost(position_size_usd, funding_rate, 24)
    IN  Raised("NameError")

CallCalculateLiquidationPrice ==
    /\ call = NoCall
    /\ \E e \in EntryPrices, l \in LeverageArgs, t \in PositionTypes :
          /\ call' = [fn |-> "calculate_liquidation_price", entry_price |-> e,
                      leverage |-> l, position_type |-> t]
          /\ ret' = Returned(CalculateLiquidationPrice(e, l, t, MaintenanceMarginRate))
    /\ UNCHANGED engine

CallCalculateRiskMetrics ==
    /\ call = NoCall
    /\ \E e \in EntryPrices, c \in CurrentPrices, z \in PositionSizesUsd,
          l \in LeverageArgs, f \in FundingRates, v \in Volatilities,
          t \in PositionTypes :
          /\ call' = [fn |-> "calculate_risk_metrics", entry_price |-> e,
                      current_price |-> c, position_size_usd |-> z, leverage |-> l,
                      funding_rate |-> f, volatility |-> v, position_type |-> t]
          /\ ret' = CalculateRiskMetrics(e, c, z, l, f, v, t)
    /\ UNCHANGED engine

\* TimeUtils.TIMEFRAME_MINUTES
TimeframeMinutes ==
    [tf \in {"1m", "5m", "15m", "30m", "1h", "4h", "1d", "1w", "1M"} |->
        CASE tf = "1m" -> 1
          [] tf = "5m" -> 5
          [] tf = "15m" -> 15
          [] tf = "30m" -> 30
          [] tf = "1h" -> 60
          [] tf = "4h" -> 240
          [] tf = "1d" -> 1440
          [] tf = "1w" -> 10080
          [] OTHER -> 43200]

\* Timeframes passed: the known ones and one that is not.
Timeframes == DOMAIN TimeframeMinutes \cup {"invalid"}

\* Timestamps passed, in whole seconds since the Unix epoch: up to MaxOffset
\* seconds before or after the epoch, or after 2024-01-01 12:30:00 UTC.
MaxOffset == 400
SecondsPerMinute == 60
Instants == {1704112200, 0}
Timestamps == {b + o : b \in Instants, o \in (-MaxOffset)..MaxOffset}

\* int(x / y) for y > 0: the quotient, truncated towards zero
IntOfQuotient(x, y) == IF x >= 0 THEN x \div y ELSE -((-x) \div y)

\* int((timestamp - epoch).total_seconds() / 60)
MinutesSinceEpoch(t, per_minute) == IntOfQuotient(t, per_minute)

\* (minutes_since_epoch // minutes) * minutes
CandleStartMinutes(minutes_since_epoch, minutes) ==
    (minutes_since_epoch \div minutes) * minutes

\* TimeUtils.get_candle_start_time, the result in seconds since the epoch;
\* timeframe_to_minutes raises ValueError for an unknown timeframe.
GetCandleStartTime(t, timeframe) ==
    IF timeframe \notin DOMAIN TimeframeMinutes
    THEN Raised("ValueError")
    ELSE LET minutes == TimeframeMinutes[timeframe]
             minutes_since_epoch == MinutesSinceEpoch(t, SecondsPerMinute)
         IN  [kind |-> "time",
              value |-> CandleStartMinutes(minutes_since_epoch, minutes)
                            * SecondsPerMinute]

CallGetCandleStartTime ==
    /\ call = NoCall
    /\ \E t \in Timestamps, tf \in Timeframes :
          /\ call' = [fn |-> "get_candle_start_time", timestamp |-> t,
                      timeframe |-> tf]
          /\ ret' = GetCandleStartTime(t, tf)
    /\ UNCHANGED engine

LibraryNext ==
    \/ CallCalculateMetrics
    \/ CallGetCandleStartTime
    \/ CallCalculateLiquidationPrice
    \/ CallCalculateRiskMetrics
    \/ CallKellyCriterion
    \/ CallFixedFraction
    \/ CallFixedFractionAgain

LibrarySpec == LibraryInit /\ [][LibraryNext]_vars

Next ==
    \/ StartRun
    \/ GenerateSignal
    \/ SignalRaises
    \/ ClosePosition
    \/ OpenPosition
    \/ UpdateEquityCurve
    \/ CloseFinalPosition
    \/ CalculateMetrics

Spec == Init /\ [][Next]_vars

TypeOK ==
    /\ pc \in {"idle", "signal", "close", "open", "mark", "final", "metrics",
               "returned", "raised"}
    /\ Len(equity_curve) >= 1
    /\ \A k \in 1..Len(equity_curve) : equity_curve[k].d > 0 /\ equity_curve[k].n # 0
    /\ opened \in 0..(MaxBars + MaxAnyBars)

----------------------------------------------------------------------------
\* Properties of run.

\* The bar being processed (Python index i) while pc is in the loop body.
CurrentBar == data[i + 1]

\* The close block of the current bar has just appended a trade.
ClosedBySignalNow ==
    /\ pc = "open"
    /\ trades # <<>>
    /\ Last(trades).exit_time = CurrentBar.time

\* The open block of the current bar has just opened a position.
OpenedNow ==
    /\ pc = "mark"
    /\ position # None
    /\ entry_time = Some(CurrentBar.time)

\* The equity curve update of a bar has just run; that bar is data[i].
MarkedNow ==
    /\ pc \in {"signal", "final"}
    /\ Len(equity_curve) >= 2

\* side * (exit - entry) / entry * notional
GrossPnl(side, entry, exit, notional) ==
    RMul(RMul(R(side), RDiv(RSub(exit, entry), entry)), notional)

\* notional * taker_fee * 2
RoundTripFee(notional) == RMul(RMul(notional, taker_fee), R(2))

\* price * (1 + pct / 100) and price * (1 - pct / 100)
MarkedUp(price, pct) == RDiv(RMul(R(price), RAdd(R(100), pct)), R(100))
MarkedDown(price, pct) == RDiv(RMul(R(price), RSub(R(100), pct)), R(100))

\* C1: no look-ahead. The k-th call of the signal function in a run (made
\* while bar index k is processed) received exactly bars[0..k], k+1 bars, the
\* calls are made in increasing order of k, and no call has received a bar
\* beyond the one being processed.
C1_NoLookAhead ==
    /\ \A k \in 1..Len(signal_calls) :
          signal_calls[k].input = [j \in 1..(k + 1) |-> data[j]]
    /\ pc \in {"close", "open", "mark"} => Len(signal_calls) = i
    /\ pc = "signal" => Len(signal_calls) = i - 1
    /\ Len(signal_calls) <= Len(data)

C1_Witness ==
    /\ pc = "close"
    /\ Len(signal_calls) >= 2
    /\ Len(signal_calls) < Len(data) - 1

\* C2: at most one position is open at any point of run (positions opened
\* minus trades logged is 0 or 1, and is 1 exactly while the position local
\* is set), and each trade's entry time is not before the previous trade's
\* exit time.
C2_AtMostOnePosition ==
    /\ opened - Len(trades) \in {0, 1}
    /\ pc \in {"signal", "close", "open", "mark", "final"} =>
          ((opened - Len(trades) = 1) <=> (position # None))
    /\ \A k \in 1..(Len(trades) - 1) :
          trades[k + 1].entry_time >= trades[k].exit_time

C2_Witness ==
    /\ Len(trades) >= 2
    /\ trades[2].entry_time = trades[1].exit_time

C4_ExitAgainstTrader ==
    ClosedBySignalNow =>
        Last(trades).exit_price =
            IF Last(trades).position = 1
            THEN MarkedDown(CurrentBar.close, slippage_pct)
            ELSE MarkedUp(CurrentBar.close, slippage_pct)

\* C5: a position is entered at the bar's close moved against the trader:
\* up by slippage_pct for a long, down for a short.
C5_EntryAgainstTrader ==
    OpenedNow =>
        entry_price[1] =
            IF position[1] = 1
            THEN MarkedUp(CurrentBar.close, slippage_pct)
            ELSE MarkedDown(CurrentBar.close, slippage_pct)

\* C6: a trade closed by a signal change records
\* pnl = side * (exit - entry)/entry * notional - notional * taker_fee * 2 with
\* notional = (running equity when the position was opened) * leverage, and
\* that pnl has been added to running equity once, no new position being open
\* yet.
C6_RealizedPnl ==
    ClosedBySignalNow =>
        LET t == Last(trades)
            notional == RMul(entry_equity[1], leverage)
        IN  /\ t.pnl = RSub(GrossPnl(t.position, t.entry_price, t.exit_price, notional),
                            RoundTripFee(notional))
            /\ equity = RAdd(entry_equity[1], t.pnl)
            /\ position = None

C6_Witness ==
    /\ ClosedBySignalNow
    /\ RPos(taker_fee)
    /\ Len(trades) >= 2

\* The unrealized P&L of the open position marked to the close of the bar
\* whose curve entry was just appended, before fees.
UnrealizedGross ==
    GrossPnl(position[1], entry_price[1], R(data[i].close), RMul(equity, leverage))

\* C7 as stated: with a position open the curve entry is running equity plus
\* the unrealized P&L with no fee deducted; with none open it is the running
\* equity.
C7_MarkWithoutFee ==
    MarkedNow =>
        Last(equity_curve) =
            IF position # None THEN RAdd(equity, UnrealizedGross) ELSE equity

\* C7 amended: with a position open the curve entry is running equity plus
\* the unrealized P&L minus the round-trip fee notional * taker_fee * 2 (the
\* same net formula as at a close); with none open it is the running equity.
C7_MarkNetOfFee ==
    MarkedNow =>
        Last(equity_curve) =
            IF position # None
            THEN RSub(RAdd(equity, UnrealizedGross),
                      RoundTripFee(RMul(equity, leverage)))
            ELSE equity

C7_Witness ==
    /\ MarkedNow
    /\ position # None
    /\ RPos(taker_fee)
    /\ ~RZero(UnrealizedGross)

\* C8: once the last bar is processed and the final-close block has run,
\* every position opened has its trade in the log; a position that was still
\* open was closed by one final trade at the last bar's close, without
\* slippage, at the last timestamp.
C8_AllPositionsClosed ==
    /\ pc \in {"metrics", "returned"} => opened = Len(trades)
    /\ (pc = "metrics" /\ position # None) =>
          /\ Last(trades).exit_price = R(Last(data).close)
          /\ Last(trades).exit_time = Last(data).time
          /\ Last(trades).entry_price = entry_price[1]
          /\ Last(trades).position = position[1]

C8_Witness ==
    /\ pc = "metrics"
    /\ position # None
    /\ RPos(slippage_pct)
    /\ Len(trades) >= 2

\* C9: a run with the always-flat signal function ends by returning a report
\* with total_trades, win_rate_pct and profit_factor all 0, with an empty
\* trade log and an equity curve equal to the initial capital at every point.
C9_FlatRunReport ==
    (signal_generator = "always_flat" /\ pc \in {"returned", "raised"}) =>
        /\ result.kind = "report"
        /\ result.stats.total_trades = 0
        /\ result.stats.win_rate_pct = R(0)
        /\ result.stats.profit_factor = R(0)
        /\ trades = <<>>
        /\ \A k \in 1..Len(equity_curve) : equity_curve[k] = initial_capital

\* C10: when the signal callback raises in its k-th call (bar index k), that
\* call is the last one made (no retry), run has ended with that error and
\* without a report, and no bar from k on has been processed: the curve holds
\* the seed and the entries of bars 1..k-1 only.
C10_CallbackErrorAborts ==
    \A k \in 1..Len(signal_calls) :
        signal_calls[k].returned = None =>
            /\ k = Len(signal_calls)
            /\ pc = "raised"
            /\ result = Raised("SignalError")
            /\ Len(equity_curve) = k
            /\ Len(timestamps) = k

C10_Witness ==
    /\ pc = "raised"
    /\ result = Raised("SignalError")
    /\ Len(signal_calls) >= 2
    /\ Len(signal_calls) < Len(data)

\* A call of run has ended, by return or by an exception.
RunEnded == pc \in {"returned", "raised"}

\* C11: after run has aborted with an error no partial result is observable:
\* no report was returned, get_trades() shows no trade and
\* get_equity_curve() shows no equity value beyond the seed.
C11_NoPartialResults ==
    pc = "raised" =>
        /\ result.kind # "report"
        /\ GetTrades = <<>>
        /\ GetEquityCurve.kind = "series" => Len(GetEquityCurve.values) <= 1

\* The per-bar returns of the recorded curve are at least two and all equal.
ZeroVarianceReturns ==
    /\ Len(equity_curve) >= 3
    /\ \A k \in 1..(Len(equity_curve) - 1) :
          RDiv(equity_curve[k + 1], equity_curve[k]) =
              RDiv(equity_curve[2], equity_curve[1])

\* C14: when the per-bar returns have zero variance the reported Sharpe ratio
\* is a defined finite number, not NaN and not an infinity.
C14_SharpeDefined ==
    (pc = "returned" /\ ZeroVarianceReturns) => result.sharpe_ratio = "finite"

\* C15: when calculate_metrics is reached with first and last timestamps less
\* than one whole day apart, run still returns a report instead of raising.
C15_ZeroDaysReport ==
    (/\ RunEnded
     /\ Len(data) >= 1
     /\ Len(equity_curve) = Len(data)
     /\ Len(timestamps) = Len(data)
     /\ Last(timestamps) - timestamps[1] \in 0..(HoursPerDay - 1))
        => result.kind = "report"

\* Errors that reject the input as such.
InvalidInputErrors == {"ValueError", "IndexError"}

\* C12: run (on an engine built with a positive capital and leverage) over an
\* empty series or a series of one bar ends with an invalid-input error, not
\* with a report.
C12_ShortSeriesRejected ==
    (RunEnded /\ Len(data) < 2 /\ RPos(initial_capital) /\ RPos(leverage)) =>
        /\ result.kind = "error"
        /\ result.error \in InvalidInputErrors

StrictlyIncreasing(d) == \A k \in 1..(Len(d) - 1) : d[k].time < d[k + 1].time

InvalidInput ==
    \/ ~RPos(initial_capital)
    \/ ~RPos(leverage)
    \/ ~StrictlyIncreasing(data)

\* C13: with a non-positive initial capital or leverage, or timestamps that
\* are not strictly increasing, a call of run ends at once with an
\* invalid-input error: no callback is invoked and no bar is processed.
C13_InvalidInputFailsFast ==
    (InvalidInput /\ pc # "idle") =>
        /\ pc = "raised"
        /\ result.error \in InvalidInputErrors
        /\ signal_calls = <<>>
        /\ Len(equity_curve) <= 1

----------------------------------------------------------------------------
\* The run as a function of initial_capital, taker_fee, slippage_pct,
\* leverage, the bars and the signals returned, and of nothing else: what the
\* fields and locals are after each bar, computed from scratch.

NetPnl(side, entry, exit, notional) ==
    RSub(GrossPnl(side, entry, exit, notional), RoundTripFee(notional))

ReplayStart ==
    [equity |-> initial_capital, trades |-> <<>>,
     curve |-> <<initial_capital>>, times |-> <<data[1].time>>,
     position |-> None, entry_price |-> None, entry_time |-> None]

ReplayClose(st, bar, sig) ==
    IF st.position # None /\ st.position # <<sig>>
    THEN LET exit == MarkedDown(bar.close, slippage_pct)
             pnl == NetPnl(st.position[1], st.entry_price[1], exit,
                           RMul(st.equity, leverage))
         IN  [st EXCEPT !.equity = RAdd(st.equity, pnl),
                        !.trades = Append(st.trades,
                            [entry_time |-> st.entry_time[1], exit_time |-> bar.time,
                             entry_price |-> st.entry_price[1], exit_price |-> exit,
                             position |-> st.position[1], pnl |-> pnl]),
                        !.position = None, !.entry_price = None, !.entry_time = None]
    ELSE st

ReplayOpen(st, bar, sig) ==
    IF st.position = None /\ sig # 0
    THEN [st EXCEPT !.position = <<sig>>,
                    !.entry_price = <<MarkedUp(bar.close, slippage_pct)>>,
                    !.entry_time = <<bar.time>>]
    ELSE st

ReplayMark(st, bar) ==
    [st EXCEPT !.curve = Append(st.curve,
                   IF st.position = None THEN st.equity
                   ELSE RAdd(st.equity,
                             NetPnl(st.position[1], st.entry_price[1], R(bar.close),
                                    RMul(st.equity, leverage)))),
               !.times = Append(st.times, bar.time)]

\* After the bars of index 1..n, the signals being those the callback returned.
ReplayBars(n) ==
    LET F[k \in 0..n] ==
            IF k = 0 THEN ReplayStart
            ELSE ReplayMark(
                     ReplayOpen(
                         ReplayClose(F[k - 1], data[k + 1], signal_calls[k].returned[1]),
                         data[k + 1], signal_calls[k].returned[1]),
                     data[k + 1])
    IN  F[n]

ReplayFinal(st) ==
    IF st.position # None
    THEN LET exit == R(data[Len(data)].close)
             pnl == NetPnl(st.position[1], st.entry_price[1], exit,
                           RMul(st.equity, leverage))
         IN  [st EXCEPT !.equity = RAdd(st.equity, pnl),
                        !.trades = Append(st.trades,
                            [entry_time |-> st.entry_time[1],
                             exit_time |-> data[Len(data)].time,
                             entry_price |-> st.entry_price[1], exit_price |-> exit,
                             position |-> st.position[1], pnl |-> pnl])]
    ELSE st

Engine ==
    [equity |-> equity, trades |-> trades, curve |-> equity_curve,
     times |-> timestamps, position |-> position, entry_price |-> entry_price,
     entry_time |-> entry_time]

ReplayFields(st) == <<st.equity, st.trades, st.curve, st.times>>

\* The engine is where the replay is: between bars, after the final close,
\* after a callback error, and after the metrics, whose report is the one
\* calculate_metrics gives for the replayed curve and trade log.
OutcomeIsReplay ==
    /\ pc \in {"signal", "final"} => Engine = ReplayBars(Len(signal_calls))
    /\ pc = "metrics" => Engine = ReplayFinal(ReplayBars(Len(signal_calls)))
    /\ (pc = "raised" /\ result = Raised("SignalError")) =>
          ReplayFields(Engine) = ReplayFields(ReplayBars(Len(signal_calls) - 1))
    /\ (RunEnded /\ result.kind # "none" /\ result # Raised("SignalError")
                 /\ result # Raised("IndexError")) =>
          LET st == ReplayFinal(ReplayBars(Len(signal_calls)))
          IN  /\ ReplayFields(Engine) = ReplayFields(st)
              /\ result = CalculateMetricsResult(st.curve, st.times, st.trades)

\* What run leaves in the fields of a newly constructed engine when the series
\* is empty: the seed of the curve, and the timestamps of the constructor.
NewInstanceRunOnEmpty ==
    <<initial_capital, <<>>, <<initial_capital>>, <<>>>>

\* C16: a call of run on an instance that has run before leaves nothing of
\* the earlier run: right after the reset the fields hold the seed only, and
\* from then on the trade log, equity curve, timestamps and report are those
\* of the same call on a new instance.
C16_NoStateAcrossRuns ==
    (rerun /\ RPos(initial_capital) /\ RPos(leverage)) =>
        /\ (pc = "signal" /\ signal_calls = <<>>) =>
              /\ equity = initial_capital
              /\ trades = <<>>
              /\ equity_curve = <<initial_capital>>
              /\ timestamps = <<data[1].time>>
              /\ position = None /\ entry_price = None /\ entry_time = None
        /\ Len(data) >= 1 => OutcomeIsReplay
        /\ Len(data) = 0 => ReplayFields(Engine) = NewInstanceRunOnEmpty

\* Running equity after the first k trades of the log.
EquityAfter(k) ==
    LET F[j \in 0..k] == IF j = 0 THEN initial_capital
                         ELSE RAdd(F[j - 1], trades[j].pnl)
    IN  F[k]

\* The notional of the k-th trade of the log: running equity * leverage.
NotionalOf(k) == RMul(EquityAfter(k - 1), leverage)

\* C17: whatever the position sizer, the trade log, equity curve and report
\* are those of the replay, which takes no sizer, and every trade of the log
\* is sized at running equity * leverage.
C17_SizerIndependent ==
    \A z \in PositionSizers :
        position_sizer = z =>
            /\ OutcomeIsReplay
            /\ \A k \in 1..Len(trades) :
                  trades[k].pnl = NetPnl(trades[k].position, trades[k].entry_price,
                                         trades[k].exit_price, NotionalOf(k))

C17_Witness ==
    /\ position_sizer = "full_equity"
    /\ pc = "returned"
    /\ Len(trades) >= 1
    /\ ~RZero(Last(trades).pnl)

\* C18: whatever the maker fee, the trade log, equity curve and report are
\* those of the replay, which never reads maker_fee, and what every trade of
\* the log has paid in fees, its P&L before fees less its recorded pnl, is
\* notional * taker_fee * 2.
C18_MakerFeeUnused ==
    \A f \in AnyMakerFees :
        maker_fee = f =>
            /\ OutcomeIsReplay
            /\ \A k \in 1..Len(trades) :
                  RSub(GrossPnl(trades[k].position, trades[k].entry_price,
                                trades[k].exit_price, NotionalOf(k)),
                       trades[k].pnl)
                      = RMul(RMul(NotionalOf(k), taker_fee), R(2))

C18_Witness ==
    /\ maker_fee = Frac(5, 100)
    /\ pc = "returned"
    /\ Len(trades) >= 1
    /\ RPos(taker_fee)

----------------------------------------------------------------------------
\* Taker fees to compare the configured one with.
OtherTakerFees == {Frac(1, 1000), Frac(1, 100), Frac(5, 100)}

\* What _calculate_pnl gives for the k-th trade of the log when the taker fee
\* is f, its side, prices and notional being those of the trade.
PnlAtFee(k, f) ==
    CalculatePnl(trades[k].position, trades[k].entry_price, trades[k].exit_price,
                 NotionalOf(k), f)

SmallerAtLargerFee(k) ==
    /\ trades[k].pnl = PnlAtFee(k, taker_fee)
    /\ \A f \in OtherTakerFees :
          RLess(taker_fee, f) => RLess(PnlAtFee(k, f), trades[k].pnl)

\* C19 as stated: for every winning trade of the log (pnl > 0), a strictly
\* larger taker fee gives a strictly smaller realized pnl, side, prices and
\* notional being equal.
C19_FeeMonotone ==
    \A k \in 1..Len(trades) :
        RPos(trades[k].pnl) => SmallerAtLargerFee(k)

\* C19 amended: the same, for every winning trade whose notional, running
\* equity * leverage, is positive.
C19_FeeMonotonePositiveNotional ==
    \A k \in 1..Len(trades) :
        (RPos(trades[k].pnl) /\ RPos(NotionalOf(k))) => SmallerAtLargerFee(k)

C19_Witness ==
    /\ Len(trades) >= 2
    /\ RPos(Last(trades).pnl)
    /\ RPos(NotionalOf(Len(trades)))
    /\ RPos(taker_fee)
    /\ \E f \in OtherTakerFees : RLess(taker_fee, f)

----------------------------------------------------------------------------
\* C20: in the scenario, with the signal function that always returns +1, the
\* position is opened while bar index 1 is processed, long at entry price 102,
\* it stays open and no trade is logged until the loop has ended, and the run
\* returns with exactly one trade in the log, closed at the last bar's
\* timestamp at exit price 103.
C20_AlwaysLongScenario ==
    (signal_generator = "always_long" /\ pc # "idle") =>
        /\ data = ScenarioBars
        /\ pc # "raised"
        /\ (pc \in {"signal", "close", "open"} /\ i = 1) =>
              position = None /\ opened = 0
        /\ (pc \in {"signal", "close", "open", "mark", "final"}
                /\ ~(pc \in {"signal", "close", "open"} /\ i = 1)) =>
              /\ opened = 1
              /\ position = Some(1)
              /\ entry_price = Some(R(102))
              /\ entry_time = Some(ScenarioBars[2].time)
              /\ trades = <<>>
        /\ pc \in {"metrics", "returned"} =>
              /\ opened = 1
              /\ Len(trades) = 1
              /\ trades[1].position = 1
              /\ trades[1].entry_price = R(102)
              /\ trades[1].entry_time = ScenarioBars[2].time
              /\ trades[1].exit_price = R(103)
              /\ trades[1].exit_time = ScenarioBars[5].time

C20_Witness ==
    /\ signal_generator = "always_long"
    /\ pc = "returned"
    /\ Len(trades) = 1
    /\ Len(equity_curve) = Len(ScenarioCloses)

----------------------------------------------------------------------------
\* Properties of calculate_metrics.

MetricsReported == call.fn = "calculate_metrics" /\ ret.kind = "report"

\* The maximum of the first t points of the curve.
PeakUpTo(curve, t) ==
    LET F[k \in 1..t] == IF k = 1 THEN curve[1] ELSE RMax(F[k - 1], curve[k])
    IN  F[t]

\* The minimum over the points t of (equity[t] - peak[t]) / peak[t] * 100.
LargestDecline(curve) ==
    LET D(t) == RMul(RDiv(RSub(curve[t], PeakUpTo(curve, t)), PeakUpTo(curve, t)),
                     R(100))
        F[k \in 1..Len(curve)] == IF k = 1 THEN D(1) ELSE RMin(F[k - 1], D(k))
    IN  F[Len(curve)]

\* C21: max_drawdown_pct of the report is the minimum over the curve points t
\* of (equity[t] - peak[t]) / peak[t] * 100, the peak being taken over all
\* points up to t with the first one, the seed, included; it is never
\* positive.
C21_MaxDrawdown ==
    (MetricsReported /\ \A t \in 1..Len(call.equity_curve) : RPos(call.equity_curve[t])) =>
        /\ ret.max_drawdown_pct = LargestDecline(call.equity_curve)
        /\ ~RPos(ret.max_drawdown_pct)

\* The pnl values of the trade log passed to calculate_metrics.
LogPnls == [k \in 1..Len(call.trades) |-> call.trades[k].pnl]

\* The lengths of the runs of consecutive trades, in log order, that are all
\* wins (pnl > 0), or all losses (pnl < 0).
WinRunLengths ==
    {b - a + 1 : <<a, b>> \in {r \in (1..Len(LogPnls)) \X (1..Len(LogPnls)) :
                      r[1] <= r[2] /\ \A k \in r[1]..r[2] : RPos(LogPnls[k])}}
LossRunLengths ==
    {b - a + 1 : <<a, b>> \in {r \in (1..Len(LogPnls)) \X (1..Len(LogPnls)) :
                      r[1] <= r[2] /\ \A k \in r[1]..r[2] : RNegative(LogPnls[k])}}

Longest(lengths) == CHOOSE m \in lengths \cup {0} : \A l \in lengths : l <= m

\* C22: consecutive_wins (consecutive_losses) is the length of the longest run
\* of consecutive trades with pnl > 0 (pnl < 0), a trade of pnl 0 belonging to
\* no run, and both are 0 for an empty log.
C22_LongestRuns ==
    MetricsReported =>
        /\ ret.stats.consecutive_wins = Longest(WinRunLengths)
        /\ ret.stats.consecutive_losses = Longest(LossRunLengths)
        /\ call.trades = <<>> =>
              ret.stats.consecutive_wins = 0 /\ ret.stats.consecutive_losses = 0

C22_Witness ==
    /\ MetricsReported
    /\ Len(LogPnls) = 3
    /\ RPos(LogPnls[1]) /\ RZero(LogPnls[2]) /\ RPos(LogPnls[3])
    /\ ret.stats.consecutive_wins = 1

\* The number of wins and of losses of the log, and the sums of their pnl.
Wins == Cardinality({k \in 1..Len(LogPnls) : RPos(LogPnls[k])})
Losses == Cardinality({k \in 1..Len(LogPnls) : RNegative(LogPnls[k])})
SumOf(pnls, keep) ==
    LET F[k \in 0..Len(pnls)] ==
            IF k = 0 THEN R(0)
            ELSE IF k \in keep THEN RAdd(F[k - 1], pnls[k]) ELSE F[k - 1]
    IN  F[Len(pnls)]
SumOfWins == SumOf(LogPnls, {k \in 1..Len(LogPnls) : RPos(LogPnls[k])})
SumOfLosses == SumOf(LogPnls, {k \in 1..Len(LogPnls) : RNegative(LogPnls[k])})

\* C23: win_rate_pct = wins / total * 100 (0 for an empty log), zero-pnl
\* trades counting in the total only; profit_factor = gross profit / |gross
\* loss|, and 0 when the gross loss is 0; avg_win = gross profit / wins and
\* avg_loss = |gross loss| / losses, each 0 when its count is 0; wins + losses
\* <= total.
C23_TradeStatistics ==
    MetricsReported =>
        LET st == ret.stats
            total == Len(LogPnls)
        IN  /\ st.total_trades = total
            /\ st.winning_trades = Wins /\ st.losing_trades = Losses
            /\ st.winning_trades + st.losing_trades <= st.total_trades
            /\ RMul(st.win_rate_pct, R(total)) = R(Wins * 100)
            /\ IF RZero(SumOfLosses)
               THEN st.profit_factor = R(0)
               ELSE RMul(st.profit_factor, RNeg(SumOfLosses)) = SumOfWins
            /\ IF Wins = 0 THEN st.avg_win_usd = R(0)
               ELSE RMul(st.avg_win_usd, R(Wins)) = SumOfWins
            /\ IF Losses = 0 THEN st.avg_loss_usd = R(0)
               ELSE RMul(st.avg_loss_usd, R(Losses)) = RNeg(SumOfLosses)

C23_Witness ==
    /\ MetricsReported
    /\ Wins = 1 /\ Losses = 1 /\ Len(LogPnls) = 3
    /\ ret.stats.profit_factor = R(2)

----------------------------------------------------------------------------
\* Properties of the position sizing and risk functions.

\* The engine is as its constructor left it.
EngineUntouched ==
    /\ pc = "idle"
    /\ <<equity, trades, equity_curve, timestamps>>
           = <<initial_capital, <<>>, <<initial_capital>>, <<>>>>

C27_KellyWithinLimit ==
    (/\ call.fn = "kelly_criterion"
     /\ ~RNegative(call.win_rate) /\ ~RLess(R(1), call.win_rate)
     /\ ~RNegative(call.avg_win) /\ ~RNegative(call.avg_loss)
     /\ ~RNegative(call.account_size)) =>
        /\ ret.kind = "value"
        /\ ~RNegative(ret.value)
        /\ ~RLess(RMul(call.account_size, call.max_fraction), ret.value)
        /\ RZero(call.avg_loss) => RZero(ret.value)

\* The default max_leverage of RiskManager.
MaxLeverage == R(5)

\* C25: for a long position with entry price > 0, current price above the
\* liquidation price, size > 0, leverage from 1 to max_leverage and funding
\* rate >= 0, calculate_risk_metrics returns a record with liquidation_price
\* > 0, liquidation_distance_pct > 0, liquidation_probability in [0, 1],
\* funding costs >= 0 and max_loss_usd >= 0.
C25_RiskMetricsOfLong ==
    (/\ call.fn = "calculate_risk_metrics"
     /\ call.position_type = "long"
     /\ RPos(call.entry_price)
     /\ RLess(RMul(call.entry_price,
                   RAdd(RSub(R(1), RDiv(R(1), call.leverage)), MaintenanceMarginRate)),
              call.current_price)
     /\ RPos(call.position_size_usd)
     /\ ~RLess(call.leverage, R(1)) /\ ~RLess(MaxLeverage, call.leverage)
     /\ ~RNegative(call.funding_rate)) =>
        /\ ret.kind = "risk_metrics"
        /\ RPos(ret.liquidation_price)
        /\ RPos(ret.liquidation_distance_pct)
        /\ ret.liquidation_probability \in {"zero", "between", "one"}
        /\ ~RNegative(ret.funding_cost_hourly)
        /\ ~RNegative(ret.funding_cost_daily)
        /\ ~RNegative(ret.max_loss_usd)

LiquidationPriceReturned ==
    call.fn = "calculate_liquidation_price" /\ ret.kind = "value"

OnTheLosingSide ==
    /\ RPos(ret.value)
    /\ call.position_type = "long" => RLess(ret.value, call.entry_price)
    /\ call.position_type = "short" => RLess(call.entry_price, ret.value)

\* C26 as stated: for entry price > 0 and leverage >= 1, at the default
\* maintenance margin rate, the liquidation price is positive, strictly below
\* the entry price for a long and strictly above it for a short.
C26_LiquidationSide ==
    (/\ call.fn = "calculate_liquidation_price"
     /\ RPos(call.entry_price)
     /\ ~RLess(call.leverage, R(1))) =>
        ret.kind = "value" /\ OnTheLosingSide

\* C26 amended: the same for 1 <= leverage < 1 / maintenance margin rate.
C26_LiquidationSideBelowLimit ==
    (/\ call.fn = "calculate_liquidation_price"
     /\ RPos(call.entry_price)
     /\ ~RLess(call.leverage, R(1))
     /\ RLess(call.leverage, RDiv(R(1), MaintenanceMarginRate))) =>
        ret.kind = "value" /\ OnTheLosingSide

C26_Witness ==
    /\ LiquidationPriceReturned
    /\ call.position_type = "short"
    /\ call.leverage = R(19)
    /\ call.entry_price = R(45000)
    /\ RLess(call.entry_price, ret.value)

----------------------------------------------------------------------------
\* Properties of get_candle_start_time.

\* C28: for a known timeframe of m minutes the time s returned for t is a
\* whole multiple of m minutes since the epoch with 0 <= t - s < m minutes,
\* the function returns s for s, and an unknown timeframe raises ValueError.
C28_CandleStart ==
    call.fn = "get_candle_start_time" =>
        IF call.timeframe \in DOMAIN TimeframeMinutes
        THEN LET m == TimeframeMinutes[call.timeframe] * 60
             IN  /\ ret.kind = "time"
                 /\ ret.value % m = 0
                 /\ ret.value <= call.timestamp
                 /\ call.timestamp - ret.value < m
                 /\ GetCandleStartTime(ret.value, call.timeframe) = ret
        ELSE ret = Raised("ValueError")

----------------------------------------------------------------------------
\* Properties of the engine's accounting.

\* C29: the running equity is always the initial capital plus the pnl of the
\* trades logged so far, and when run has returned the last value of the
\* equity curve is the final running equity, the pnl of a forced final close
\* included.
C29_EquityConserved ==
    /\ equity = EquityAfter(Len(trades))
    /\ pc = "returned" =>
          /\ Last(equity_curve) = equity
          /\ Last(equity_curve) = EquityAfter(Len(trades))

C29_Witness ==
    /\ pc = "returned"
    /\ Len(trades) >= 2
    /\ RPos(slippage_pct) /\ RPos(taker_fee)
    /\ Last(trades).exit_price = R(Last(data).close)
    /\ ~RZero(Last(trades).pnl)

\* C30: on a newly constructed engine and after every run that has returned,
\* equity_curve and timestamps have the same length and get_equity_curve()
\* gives the series pairing them.
C30_CurvePairedWithTimestamps ==
    pc \in {"idle", "returned"} =>
        /\ Len(equity_curve) = Len(timestamps)
        /\ GetEquityCurve.kind = "series"

====
